---- MODULE Spec2Model ----
(***************************************************************************)
(* Schedule reconciliation of the trip planner: the time helpers and       *)
(* recalculateSchedule of App.tsx, the day handlers that funnel through    *)
(* it, the background place lookups of ActivityCard, the route assembly    *)
(* of calculateFastestRoute and the stop ordering of solveGeometricTSP.    *)
(*                                                                         *)
(* A time string is the sequence of the numeric fields of                  *)
(* split(':').map(Number): "09:30" is <<9, 30>>, "" is <<0>>; the integer  *)
(* NaN stands for the number NaN.  An optional field is <<>> when          *)
(* undefined and <<v>> when set to v.                                      *)
(***************************************************************************)
EXTENDS Integers, Sequences, FiniteSets, TLC

VARIABLES
    day,      \* the selected DayPlan: [startTime, activities, travelSegments]
    ops,      \* number of handler operations invoked on the day
    pc,       \* position of the harness that applies a pure function
    xs,       \* recalculateSchedule: first call's activities
    t,        \* recalculateSchedule: dayStartTime of both calls
    segs,     \* recalculateSchedule: travelSegments of both calls
    out,      \* result of the first call
    ys,       \* activities of the second call
    out2,     \* result of the second call
    edit,     \* <<i, d>> when ys is xs with activity i lengthened to d, else <<>>
    asm,      \* calculateFastestRoute's locals while it assembles the legs
    tsp,      \* solveGeometricTSP's arguments and locals
    pending,  \* the Optimize route call awaiting its result, <<>> when none
    lookup    \* the place lookup in flight: <<the activity it was started
              \* with>>, <<>> when none

dayVars == <<day, ops>>

recalcVars == <<xs, t, segs, out, ys, out2, edit>>

routeVars == <<asm, tsp>>

vars == <<day, ops, pc, xs, t, segs, out, ys, out2, edit, asm, tsp, pending, lookup>>

----------------------------------------------------------------------------
(* Bounds of the model *)

\* Longest activity list handed to recalculateSchedule by the harness.
MaxLen == 2

\* Most handler operations applied to the day.
MaxOps == 3

\* Most activities (legs) of a route handed to the travel-time assembly.
MaxSteps == 2

----------------------------------------------------------------------------
(* JavaScript arithmetic *)

\* a % b of JavaScript: the remainder takes the sign of the dividend.
JsRem(a, b) == IF a >= 0 THEN a % b ELSE -((-a) % b)

\* Math.ceil(a / b) for b > 0.
CeilDiv(a, b) == -((-a) \div b)

Min(S) == CHOOSE x \in S : \A y \in S : x <= y

\* The number NaN, a value outside every number of minutes the model computes.
\* Number(undefined) and every sum or difference with a NaN operand is NaN.
NaN == -1000000

Plus(a, b) == IF a = NaN \/ b = NaN THEN NaN ELSE a + b

Minus(a, b) == IF a = NaN \/ b = NaN THEN NaN ELSE a - b

----------------------------------------------------------------------------
(* Time utilities.  A time string is the sequence t.split(':').map(Number)  *)
(* of its fields: "09:30" is <<9, 30>>, the empty string is <<0>>, and      *)
(* "NaN:NaN" is <<NaN, NaN>>.                                               *)

\* const [h, m] = t.split(':').map(Number); h * 60 + m.  A string without
\* ':' has one field, m is undefined and the sum is NaN.
timeToMins(s) ==
    IF Len(s) < 2 THEN NaN
    ELSE IF s[1] = NaN \/ s[2] = NaN THEN NaN
    ELSE s[1] * 60 + s[2]

minsToTime12h(m) == <<JsRem(m \div 60, 12), JsRem(m, 60)>>

\* Both template fields print "NaN" when m is NaN.
minsToTime(m) ==
    IF m = NaN THEN <<NaN, NaN>>
    ELSE <<JsRem(m \div 60, 24), JsRem(m, 60)>>

roundToMinute(mins) == mins

roundTo5(mins) == IF mins = NaN THEN NaN ELSE CeilDiv(mins, 5) * 5

\* A valid wall-clock HH:mm string.
WellFormed(s) == Len(s) = 2 /\ s[1] \in 0..23 /\ s[2] \in 0..59

----------------------------------------------------------------------------
(* recalculateSchedule *)

DefaultDurationMins == 60

DefaultTravelMins == 30

Undefined == <<>>

\* x || y on an optional number: undefined and 0 are falsy.
Truthy(opt) == opt # Undefined /\ opt[1] # 0

durationMinsFromTimes(act) ==
    LET raw == timeToMins(act.endTime) - timeToMins(act.startTime)
    IN  IF raw <= 0 THEN DefaultDurationMins ELSE raw

\* NaN <= 0 is false: a NaN difference is kept.
durationMins(act) ==
    LET raw == IF Truthy(act.lockedDurationMinutes)
               THEN act.lockedDurationMinutes[1]
               ELSE Minus(timeToMins(act.endTime), timeToMins(act.startTime))
    IN  IF raw # NaN /\ raw <= 0 THEN DefaultDurationMins ELSE raw

\* travelSegments?.find(s => s.fromId === from && s.toId === to)
findSegment(travelSegments, from, to) ==
    LET hits == {k \in DOMAIN travelSegments :
                    /\ travelSegments[k].fromId = from
                    /\ travelSegments[k].toId = to}
    IN  IF hits = {} THEN Undefined ELSE <<travelSegments[Min(hits)]>>

travelMinsFloor(travelSegments, from, to) ==
    LET segment == findSegment(travelSegments, from, to)
    IN  IF segment # Undefined
        THEN segment[1].durationValue \div 60
        ELSE DefaultTravelMins

travelMins(travelSegments, from, to) ==
    LET segment == findSegment(travelSegments, from, to)
    IN  IF segment # Undefined
        THEN CeilDiv(segment[1].durationValue, 60)
        ELSE DefaultTravelMins

newStartMinsNoAnchor(act, index, prevAct, prevResult, currentMins, travelSegments) ==
    IF index = 1
    THEN roundTo5(currentMins)
    ELSE roundTo5(timeToMins(prevResult.endTime)
                    + travelMins(travelSegments, prevAct.id, act.id))

\* index is 1-based; prevAct and prevResult are read only when index > 1.
newStartMins(act, index, prevAct, prevResult, currentMins, travelSegments) ==
    IF act.lockedStartTime
    THEN timeToMins(act.startTime)
    ELSE IF index = 1
    THEN roundTo5(currentMins)
    ELSE roundTo5(Plus(timeToMins(prevResult.endTime),
                       travelMins(travelSegments, prevAct.id, act.id)))

\* The result array after the loop has pushed the first n activities.
RECURSIVE recalcLoop(_, _, _, _)
recalcLoop(activities, dayStartTime, travelSegments, n) ==
    IF n = 0 THEN <<>>
    ELSE LET result == recalcLoop(activities, dayStartTime, travelSegments, n - 1)
             act    == activities[n]
             start  == newStartMins(act, n,
                          IF n > 1 THEN activities[n - 1] ELSE act,
                          IF n > 1 THEN result[n - 1] ELSE act,
                          timeToMins(dayStartTime), travelSegments)
         IN  Append(result,
                    [act EXCEPT !.startTime = minsToTime(start),
                                !.endTime   = minsToTime(Plus(start, durationMins(act)))])

recalculateScheduleShort(activities, dayStartTime, travelSegments) ==
    IF Len(activities) = 0 THEN activities
    ELSE recalcLoop(activities, dayStartTime, travelSegments, Len(activities) - 1)

recalculateSchedule(activities, dayStartTime, travelSegments) ==
    IF Len(activities) = 0 THEN activities
    ELSE recalcLoop(activities, dayStartTime, travelSegments, Len(activities))

----------------------------------------------------------------------------
(* Inputs of the recalculateSchedule harness *)

IdOrder == <<"a", "b", "c", "d">>

\* (startTime, endTime) pairs: 60 min, 90 min off the 5-minute grid,
\* zero length, and an end that is numerically before the start.
TimePairs ==
    { <<<<9, 0>>, <<10, 0>>>>,
      <<<<14, 2>>, <<15, 32>>>>,
      <<<<12, 0>>, <<12, 0>>>>,
      <<<<23, 0>>, <<0, 30>>>> }

LockedDurations == {Undefined, <<-5>>, <<45>>}

DayStartTimes == {<<9, 0>>, <<9, 2>>, <<23, 30>>}

\* Durations a user locks an activity to when lengthening it.
NewDurations == {180, 1500}

Seg(from, to, secs) == [fromId |-> from, toId |-> to, durationValue |-> secs]

\* None; a path with a 15-minute a->b hop; one second more, with a stale
\* (reversed) hop; a zero-duration hop followed by a second match for it.
SegmentLists ==
    { <<>>,
      <<Seg("start", "a", 300), Seg("a", "b", 900)>>,
      <<Seg("a", "b", 901), Seg("b", "a", 900), Seg("b", "c", 1500)>>,
      <<Seg("a", "b", 0), Seg("a", "b", 1200)>> }

Act(i, tp, ls, ld) ==
    [id |-> IdOrder[i], startTime |-> tp[1], endTime |-> tp[2],
     lockedStartTime |-> ls, lockedDurationMinutes |-> ld]

ActivityLists ==
    UNION { { [i \in 1..n |-> Act(i, f[i][1], f[i][2], f[i][3])] :
                f \in [1..n -> TimePairs \X BOOLEAN \X LockedDurations] } :
            n \in 0..MaxLen }

NoAssembly == <<>>

NoSolver == <<>>

NoOptimize == <<>>

NoLookup == <<>>

NoDay == [startTime |-> <<9, 0>>, activities |-> <<>>, travelSegments |-> Undefined]

----------------------------------------------------------------------------
(* Harness: apply recalculateSchedule to drawn inputs, then either apply   *)
(* it again to its own result or to the input with one activity lengthened *)

InitRecalc ==
    /\ day = NoDay
    /\ ops = 0
    /\ asm = NoAssembly
    /\ tsp = NoSolver
    /\ pending = NoOptimize
    /\ lookup = NoLookup
    /\ pc = "input"
    /\ xs \in ActivityLists
    /\ t \in DayStartTimes
    /\ segs \in SegmentLists
    /\ out = <<>>
    /\ ys = <<>>
    /\ out2 = <<>>
    /\ edit = <<>>

Recalculate ==
    /\ pc = "input"
    /\ out' = recalculateSchedule(xs, t, segs)
    /\ pc' = "once"
    /\ UNCHANGED <<dayVars, routeVars, pending, lookup, xs, t, segs, ys, out2, edit>>

RecalculateAgain ==
    /\ pc = "once"
    /\ ys' = out
    /\ out2' = recalculateSchedule(out, t, segs)
    /\ pc' = "twice"
    /\ UNCHANGED <<dayVars, routeVars, pending, lookup, xs, t, segs, out, edit>>

RecalculateLengthened ==
    /\ pc = "once"
    /\ \E i \in DOMAIN xs, d \in NewDurations :
          /\ d > durationMins(xs[i])
          /\ ys' = [xs EXCEPT ![i].lockedDurationMinutes = <<d>>]
          /\ out2' = recalculateSchedule(ys', t, segs)
          /\ edit' = <<i, d>>
    /\ pc' = "lengthened"
    /\ UNCHANGED <<dayVars, routeVars, pending, lookup, xs, t, segs, out>>

NextRecalc == Recalculate \/ RecalculateAgain \/ RecalculateLengthened

SpecRecalc == InitRecalc /\ [][NextRecalc]_vars

----------------------------------------------------------------------------
(* The same harness on time strings that may lack the ':': the empty       *)
(* string a cleared time input hands to handleUpdateDayStartTime and to    *)
(* the card's edit form, and "0900".                                       *)

EmptyTime == <<0>>

MalformedTimePairs ==
    { <<<<9, 0>>, <<10, 0>>>>,
      <<<<14, 2>>, <<15, 32>>>>,
      <<EmptyTime, <<10, 0>>>>,
      <<<<9, 0>>, EmptyTime>> }

MalformedDayStartTimes == {<<9, 0>>, EmptyTime, <<900>>}

MalformedActivityLists ==
    UNION { { [i \in 1..n |-> Act(i, f[i][1], f[i][2], f[i][3])] :
                f \in [1..n -> MalformedTimePairs \X BOOLEAN \X {Undefined, <<45>>}] } :
            n \in 1..MaxLen }

InitMalformed ==
    /\ day = NoDay
    /\ ops = 0
    /\ asm = NoAssembly
    /\ tsp = NoSolver
    /\ pending = NoOptimize
    /\ lookup = NoLookup
    /\ pc = "input"
    /\ xs \in MalformedActivityLists
    /\ t \in MalformedDayStartTimes
    /\ segs \in {<<>>, <<Seg("a", "b", 900)>>}
    /\ out = <<>>
    /\ ys = <<>>
    /\ out2 = <<>>
    /\ edit = <<>>

NextMalformed == Recalculate \/ RecalculateAgain

SpecMalformed == InitMalformed /\ [][NextMalformed]_vars

----------------------------------------------------------------------------
(* The day handlers of App.tsx on the selected day.  Every handler is one  *)
(* setTrip update: it transforms the activity list and commits the         *)
(* recalculated list.                                                      *)

\* Day 1 of INITIAL_TRIP.
InitialDay ==
    [startTime |-> <<10, 0>>,
     activities |->
        << [id |-> "act-1-1", startTime |-> <<10, 0>>, endTime |-> <<11, 0>>,
            location |-> <<356595, 1397004>>, type |-> "sightseeing",
            lockedStartTime |-> FALSE, lockedDurationMinutes |-> Undefined],
           [id |-> "act-1-2", startTime |-> <<11, 30>>, endTime |-> <<13, 30>>,
            location |-> <<356620, 1396986>>, type |-> "shopping",
            lockedStartTime |-> FALSE, lockedDurationMinutes |-> Undefined],
           [id |-> "act-1-3", startTime |-> <<16, 0>>, endTime |-> <<18, 0>>,
            location |-> <<357100, 1398107>>, type |-> "sightseeing",
            lockedStartTime |-> FALSE, lockedDurationMinutes |-> Undefined] >>,
     travelSegments |-> Undefined]

\* Ids handed to handleDeleteActivity: the cards' ids, an id padded with
\* white space, and an id no activity has.
DeleteIds == {"act-1-1", "act-1-2", "act-1-3", " act-1-2 ", "act-9-9"}

\* String(id).trim()
Trim(id) == IF id = " act-1-2 " THEN "act-1-2" ELSE id

\* Minutes typed into the duration lock input (accepted when > 0).
LockInputs == {45}

\* Times saved from the edit form.
EditTimePairs == { <<<<14, 2>>, <<15, 32>>>> }

\* a.localeCompare(b) <= 0 on zero-padded "HH:mm" strings.
localeCompareLeq(a, b) == a[1] < b[1] \/ (a[1] = b[1] /\ a[2] <= b[2])

RemoveAt(s, i) == SubSeq(s, 1, i - 1) \o SubSeq(s, i + 1, Len(s))

InsertAt(s, i, x) == SubSeq(s, 1, i - 1) \o <<x>> \o SubSeq(s, i, Len(s))

\* Array.prototype.filter
RECURSIVE filterOut(_, _)
filterOut(s, activityId) ==
    IF s = <<>> THEN <<>>
    ELSE LET rest == filterOut(Tail(s), activityId)
         IN  IF Trim(Head(s).id) = Trim(activityId) THEN rest ELSE <<Head(s)>> \o rest

\* Array.prototype.sort is stable: x goes after the last element that does
\* not compare greater than it.
RECURSIVE insertByStartTime(_, _)
insertByStartTime(sorted, x) ==
    IF sorted = <<>> THEN <<x>>
    ELSE LET last == sorted[Len(sorted)]
         IN  IF localeCompareLeq(last.startTime, x.startTime)
             THEN Append(sorted, x)
             ELSE Append(insertByStartTime(SubSeq(sorted, 1, Len(sorted) - 1), x), last)

RECURSIVE sortByStartTime(_)
sortByStartTime(s) ==
    IF s = <<>> THEN <<>>
    ELSE insertByStartTime(sortByStartTime(SubSeq(s, 1, Len(s) - 1)), s[Len(s)])

handleUpdateActivity(updatedActivity) ==
    LET updatedActivities ==
            [i \in DOMAIN day.activities |->
                IF day.activities[i].id = updatedActivity.id
                THEN updatedActivity ELSE day.activities[i]]
    IN  day' = [day EXCEPT !.activities =
                    recalculateSchedule(updatedActivities, day.startTime, day.travelSegments)]

\* The card's lock button, duration lock input and edit form.
UpdateActivity ==
    /\ pc = "day"
    /\ ops < MaxOps
    /\ \E i \in DOMAIN day.activities :
          LET activity == day.activities[i]
          IN  \/ handleUpdateActivity(
                    [activity EXCEPT !.lockedStartTime = ~activity.lockedStartTime])
              \/ \E mins \in LockInputs :
                    /\ mins > 0
                    /\ handleUpdateActivity(
                          [activity EXCEPT !.lockedDurationMinutes = <<mins>>])
              \/ \E tp \in EditTimePairs :
                    handleUpdateActivity(
                          [activity EXCEPT !.startTime = tp[1], !.endTime = tp[2]])
    /\ ops' = ops + 1
    /\ UNCHANGED <<pc, recalcVars, routeVars, pending, lookup>>

handleDeleteActivity(activityId) ==
    LET newActivities == filterOut(day.activities, activityId)
    IN  day' = [day EXCEPT !.activities =
                    recalculateSchedule(newActivities, day.startTime, Undefined)]

DeleteActivity ==
    /\ pc = "day"
    /\ ops < MaxOps
    /\ \E activityId \in DeleteIds : handleDeleteActivity(activityId)
    /\ ops' = ops + 1
    /\ UNCHANGED <<pc, recalcVars, routeVars, pending, lookup>>

\* Settings of the type filter above the list.
FilterTypes == {"all", "sightseeing", "shopping", "food"}

\* The cards rendered: the day's activities that pass the filter.
displayedActivities(filterType) ==
    SelectSeq(day.activities, LAMBDA a : filterType = "all" \/ a.type = filterType)

\* index is 1-based; direction is -1 (up) or 1 (down).
handleMoveActivity(index, direction) ==
    LET activities  == day.activities
        targetIndex == index + direction
    IN  IF targetIndex >= 1 /\ targetIndex <= Len(activities)
        THEN day' = [day EXCEPT !.activities =
                        recalculateSchedule(
                            [activities EXCEPT ![index] = activities[targetIndex],
                                               ![targetIndex] = activities[index]],
                            day.startTime, day.travelSegments)]
        ELSE day' = day

\* The card's Move up button is disabled on the first displayed card, its
\* Move down button when the card's index is the last index of the day.
moveEnabled(index, direction) ==
    IF direction = -1 THEN index # 1 ELSE index # Len(day.activities)

MoveActivity ==
    /\ pc = "day"
    /\ ops < MaxOps
    /\ \E filterType \in FilterTypes :
          \E index \in DOMAIN displayedActivities(filterType), direction \in {-1, 1} :
             /\ moveEnabled(index, direction)
             /\ handleMoveActivity(index, direction)
    /\ ops' = ops + 1
    /\ UNCHANGED <<pc, recalcVars, routeVars, pending, lookup>>

handleDrop(draggedIndex, targetIndex) ==
    /\ draggedIndex # targetIndex
    /\ LET movedItem  == day.activities[draggedIndex]
           activities == InsertAt(RemoveAt(day.activities, draggedIndex),
                                  targetIndex, movedItem)
       IN  day' = [day EXCEPT !.activities =
                       recalculateSchedule(activities, day.startTime, day.travelSegments)]

Drop ==
    /\ pc = "day"
    /\ ops < MaxOps
    /\ \E filterType \in FilterTypes :
          \E draggedIndex \in DOMAIN displayedActivities(filterType),
             targetIndex \in DOMAIN displayedActivities(filterType) :
             handleDrop(draggedIndex, targetIndex)
    /\ ops' = ops + 1
    /\ UNCHANGED <<pc, recalcVars, routeVars, pending, lookup>>

\* The day handleSortByTime commits for the day d.
sortedByTime(d) ==
    [d EXCEPT !.activities =
        recalculateSchedule(sortByStartTime(d.activities), d.startTime, Undefined)]

handleSortByTime == day' = sortedByTime(day)

SortByTime ==
    /\ pc = "day"
    /\ ops < MaxOps
    /\ handleSortByTime
    /\ ops' = ops + 1
    /\ UNCHANGED <<pc, recalcVars, routeVars, pending, lookup>>

handleUpdateDayStartTime(newTime) ==
    day' = [day EXCEPT !.startTime = newTime,
                       !.activities = recalculateSchedule(day.activities, newTime, Undefined)]

UpdateDayStartTime ==
    /\ pc = "day"
    /\ ops < MaxOps
    /\ \E newTime \in DayStartTimes : handleUpdateDayStartTime(newTime)
    /\ ops' = ops + 1
    /\ UNCHANGED <<pc, recalcVars, routeVars, pending, lookup>>

----------------------------------------------------------------------------
(* Travel-time assembly of calculateFastestRoute: one leg per ordered      *)
(* activity, each leg choosing between the walking and the transit         *)
(* estimate.  A provider result is <<>> when the query failed.  A segment  *)
(* carries the fields the selection reads or writes; distance and fare are *)
(* display payload of the estimate and are left out.                       *)

CloseMatchMins == 15

LongWalkMins == 45

\* Google walking legs: leg.duration.text and leg.duration.value (seconds).
WalkingResults ==
    { [text |-> "20 mins", value |-> 1200],
      [text |-> "45 mins", value |-> 2700],
      [text |-> "45 mins", value |-> 2701],
      [text |-> "50 mins", value |-> 3000] }

\* Transit routes returned by getPublicTransportRoute.
NavitimeResults ==
    { [mode |-> "TRAIN", duration |-> "4 min",  durationValue |-> 299],
      [mode |-> "TRAIN", duration |-> "5 min",  durationValue |-> 300],
      [mode |-> "BUS",   duration |-> "20 min", durationValue |-> 1200],
      [mode |-> "TRAIN", duration |-> "22 min", durationValue |-> 1320],
      [mode |-> "BUS",   duration |-> "35 min", durationValue |-> 2100],
      [mode |-> "TRAIN", duration |-> "35 min", durationValue |-> 2101],
      [mode |-> "TRAIN", duration |-> "40 min", durationValue |-> 2400],
      [mode |-> "BUS",   duration |-> "60 min", durationValue |-> 3600] }

\* Google transit legs of the fallback query.
FallbackResults == { [text |-> "30 mins", value |-> 1800] }

Optional(S) == {Undefined} \cup {<<x>> : x \in S}

Segment(from, to, mode, text, secs) ==
    [fromId |-> from, toId |-> to, mode |-> mode, duration |-> text,
     durationValue |-> secs, alternativeMode |-> Undefined,
     alternativeDuration |-> Undefined, alternativeLabel |-> Undefined]

\* 1. Process Google Walking Result
walkSegOf(walkingResult, currentId, targetId) ==
    IF walkingResult = Undefined THEN Undefined
    ELSE <<Segment(currentId, targetId, "WALKING",
                   walkingResult[1].text, walkingResult[1].value)>>

\* 2. Process NAVITIME Result
transitSegOf(navitimeResult, currentId, targetId) ==
    IF navitimeResult = Undefined THEN Undefined
    ELSE <<Segment(currentId, targetId, navitimeResult[1].mode,
                   navitimeResult[1].duration, navitimeResult[1].durationValue)>>

withAlternative(primary, other, label) ==
    [primary EXCEPT !.alternativeMode = <<other.mode>>,
                    !.alternativeDuration = <<other.duration>>,
                    !.alternativeLabel = <<<<label, other.duration>>>>]

competitive(transitSeg, walkSeg) ==
    IF transitSeg.durationValue <= walkSeg.durationValue
    THEN withAlternative(transitSeg, walkSeg, "Walk: ")
    ELSE withAlternative(walkSeg, transitSeg,
                         IF transitSeg.mode = "TRAIN" THEN "Train: " ELSE "Bus: ")

bothNoLongWalkRule(transitSeg, walkSeg) ==
    LET tVal == transitSeg.durationValue
        wVal == walkSeg.durationValue
    IN  IF tVal < wVal - (CloseMatchMins * 60) THEN transitSeg
        ELSE IF wVal < tVal - (CloseMatchMins * 60) THEN walkSeg
        ELSE competitive(transitSeg, walkSeg)

bothInclusive(transitSeg, walkSeg) ==
    LET tVal == transitSeg.durationValue
        wVal == walkSeg.durationValue
    IN  IF wVal > LongWalkMins * 60 THEN transitSeg
        ELSE IF tVal <= wVal - (CloseMatchMins * 60) THEN transitSeg
        ELSE IF wVal <= tVal - (CloseMatchMins * 60) THEN walkSeg
        ELSE competitive(transitSeg, walkSeg)

\* 3. DECISION TIME, both estimates present (cases A to D).
both(transitSeg, walkSeg) ==
    LET tVal == transitSeg.durationValue
        wVal == walkSeg.durationValue
    IN  IF wVal > LongWalkMins * 60 THEN transitSeg
        ELSE IF tVal < wVal - (CloseMatchMins * 60) THEN transitSeg
        ELSE IF wVal < tVal - (CloseMatchMins * 60) THEN walkSeg
        ELSE competitive(transitSeg, walkSeg)

placeholderFromStart(currentId, targetId) ==
    Segment("start", targetId, "WALKING", "?", 0)

\* The segment pushed when selectedSegment is null.
placeholderSegment(currentId, targetId) ==
    Segment(currentId, targetId, "WALKING", "?", 0)

\* selectedSegment after steps 3 and 4; <<>> when no query gave a route.
selectSegment(transitSeg, walkSeg, fallbackResult, currentId, targetId) ==
    IF transitSeg # Undefined /\ walkSeg # Undefined
    THEN <<both(transitSeg[1], walkSeg[1])>>
    ELSE IF transitSeg # Undefined THEN transitSeg
    ELSE IF walkSeg # Undefined THEN walkSeg
    ELSE IF fallbackResult # Undefined
    THEN <<Segment(currentId, targetId, "TRANSIT",
                   fallbackResult[1].text, fallbackResult[1].value)>>
    ELSE Undefined

\* mapService's timeToMins: 0 for a string without ':'.
mapTimeToMins(tm) ==
    IF Len(tm) < 2 THEN 0
    ELSE IF tm[1] = NaN \/ tm[2] = NaN THEN NaN
    ELSE tm[1] * 60 + tm[2]

\* mapService's own duration of a stay.
getActivityDuration(act) ==
    IF Truthy(act.lockedDurationMinutes) THEN act.lockedDurationMinutes[1]
    ELSE LET diff0 == Minus(mapTimeToMins(act.endTime), mapTimeToMins(act.startTime))
             diff  == IF diff0 # NaN /\ diff0 < 0 THEN diff0 + 1440 ELSE diff0
         IN  IF diff # NaN /\ diff > 0 THEN diff ELSE DefaultDurationMins

\* The ordered activities of a route.
StepShapes ==
    { <<<<<<9, 0>>, <<10, 0>>>>, FALSE, Undefined>>,
      <<<<<<14, 2>>, <<15, 32>>>>, TRUE, <<45>>>> }

StepLists ==
    UNION { { [i \in 1..n |-> Act(i, f[i][1], f[i][2], f[i][3])] :
                f \in [1..n -> StepShapes] } :
            n \in 1..MaxSteps }

InitAssembly ==
    /\ day = NoDay
    /\ ops = 0
    /\ tsp = NoSolver
    /\ pending = NoOptimize
    /\ lookup = NoLookup
    /\ pc = "legs"
    /\ xs = <<>> /\ t = <<9, 0>> /\ segs = <<>>
    /\ out = <<>> /\ ys = <<>> /\ out2 = <<>> /\ edit = <<>>
    /\ \E steps \in StepLists :
          asm = [steps |-> steps, i |-> 1, currentId |-> "start",
                 segments |-> <<>>, totalSeconds |-> 0, departure |-> 0,
                 walkSeg |-> Undefined, transitSeg |-> Undefined,
                 failed |-> {}]

\* One iteration of the loop over steps: both queries, the decision, the
\* fallback query and the commit.  departure counts the seconds added to the
\* initial departureTime; failed collects the legs none of whose queries
\* gave a route.
Leg ==
    /\ pc = "legs"
    /\ asm.i <= Len(asm.steps)
    /\ \E navitimeResult \in Optional(NavitimeResults),
          walkingResult \in Optional(WalkingResults),
          fallbackResult \in Optional(FallbackResults) :
          LET targetAct  == asm.steps[asm.i]
              walkSeg    == walkSegOf(walkingResult, asm.currentId, targetAct.id)
              transitSeg == transitSegOf(navitimeResult, asm.currentId, targetAct.id)
              selected   == selectSegment(transitSeg, walkSeg, fallbackResult,
                                          asm.currentId, targetAct.id)
          IN  asm' =
                IF selected # Undefined
                THEN [asm EXCEPT
                        !.totalSeconds = @ + selected[1].durationValue,
                        !.departure = @ + selected[1].durationValue
                                        + 60 * getActivityDuration(targetAct),
                        !.segments = Append(@, selected[1]),
                        !.walkSeg = walkSeg,
                        !.transitSeg = transitSeg,
                        !.currentId = targetAct.id,
                        !.i = @ + 1]
                ELSE [asm EXCEPT
                        !.segments = Append(@, placeholderSegment(asm.currentId,
                                                                 targetAct.id)),
                        !.failed = @ \cup {asm.i},
                        !.walkSeg = walkSeg,
                        !.transitSeg = transitSeg,
                        !.currentId = targetAct.id,
                        !.i = @ + 1]
    /\ UNCHANGED <<dayVars, pc, recalcVars, tsp, pending, lookup>>

\* The return leg to the origin and the returned result.
ReturnLeg ==
    /\ pc = "legs"
    /\ asm.i > Len(asm.steps)
    /\ \E result \in Optional(FallbackResults) :
          asm' = [asm EXCEPT !.totalSeconds =
                      @ + (IF result # Undefined THEN result[1].value ELSE 0)]
    /\ pc' = "returned"
    /\ UNCHANGED <<dayVars, recalcVars, tsp, pending, lookup>>

NextAssembly == Leg \/ ReturnLeg

SpecAssembly == InitAssembly /\ [][NextAssembly]_vars

----------------------------------------------------------------------------
(* Route solver of mapService.ts.  A location is the pair <<lat, lng>> in  *)
(* units of 0.0001 degree.  Indices into the activity list are 1-based.    *)

ShibuyaCrossing == <<356595, 1397004>>

ShibuyaParco == <<356620, 1396986>>

TokyoSkytree == <<357100, 1398107>>

\* The location given to an added activity whose place lookup fails.
TokyoDefault == <<356762, 1396503>>

Osaka == <<346937, 1355023>>

Oita == <<332396, 1316093>>

\* getDistance(p1, p2) in whole metres on the locations above: the value of
\* R * 2 * atan2(sqrt a, sqrt(1 - a)) with
\* a = sin^2(dphi/2) + cos(phi1) * cos(phi1) * sin^2(dlambda/2).
getDistanceMetres ==
    <<ShibuyaCrossing, ShibuyaCrossing>> :> 0 @@ <<ShibuyaCrossing, ShibuyaParco>> :> 322 @@ <<ShibuyaCrossing, TokyoSkytree>> :> 11438 @@ <<ShibuyaCrossing, TokyoDefault>> :> 4892 @@ <<ShibuyaCrossing, Osaka>> :> 394171 @@ <<ShibuyaCrossing, Oita>> :> 778854
    @@ <<ShibuyaParco, ShibuyaCrossing>> :> 322 @@ <<ShibuyaParco, ShibuyaParco>> :> 0 @@ <<ShibuyaParco, TokyoSkytree>> :> 11448 @@ <<ShibuyaParco, TokyoDefault>> :> 4640 @@ <<ShibuyaParco, Osaka>> :> 394079 @@ <<ShibuyaParco, Oita>> :> 778776
    @@ <<TokyoSkytree, ShibuyaCrossing>> :> 11433 @@ <<TokyoSkytree, ShibuyaParco>> :> 11442 @@ <<TokyoSkytree, TokyoSkytree>> :> 0 @@ <<TokyoSkytree, TokyoDefault>> :> 14962 @@ <<TokyoSkytree, Osaka>> :> 405060 @@ <<TokyoSkytree, Oita>> :> 789705
    @@ <<TokyoDefault, ShibuyaCrossing>> :> 4892 @@ <<TokyoDefault, ShibuyaParco>> :> 4640 @@ <<TokyoDefault, TokyoSkytree>> :> 14968 @@ <<TokyoDefault, TokyoDefault>> :> 0 @@ <<TokyoDefault, Osaka>> :> 390259 @@ <<TokyoDefault, Oita>> :> 775117
    @@ <<Osaka, ShibuyaCrossing>> :> 398535 @@ <<Osaka, ShibuyaParco>> :> 398452 @@ <<Osaka, TokyoSkytree>> :> 409768 @@ <<Osaka, TokyoDefault>> :> 394638 @@ <<Osaka, Osaka>> :> 0 @@ <<Osaka, Oita>> :> 390921
    @@ <<Oita, ShibuyaCrossing>> :> 799079 @@ <<Oita, ShibuyaParco>> :> 799015 @@ <<Oita, TokyoSkytree>> :> 810629 @@ <<Oita, TokyoDefault>> :> 795328 @@ <<Oita, Osaka>> :> 396518 @@ <<Oita, Oita>> :> 0

\* A location whose lat and lng are not numbers.
Nowhere == <<NaN, NaN>>

\* Every product and sum with a NaN coordinate is NaN.
getDistance(p1, p2) ==
    IF p1 = Nowhere \/ p2 = Nowhere THEN NaN ELSE getDistanceMetres[<<p1, p2>>]

getRelMinsNoWrap(tm, dayStartMins) == mapTimeToMins(tm)

\* Minutes relative to the day start: a time before it belongs to the next day.
getRelMins(tm, dayStartMins) ==
    LET m == mapTimeToMins(tm)
    IN  IF m < dayStartMins THEN m + 1440 ELSE m

\* Array.prototype.sort with the comparator getRelMins(a) - getRelMins(b) is
\* stable: idx goes after the last anchor that does not compare greater.
RECURSIVE insertAnchor(_, _, _, _)
insertAnchor(sorted, idx, activities, dayStartMins) ==
    IF sorted = <<>> THEN <<idx>>
    ELSE LET last == sorted[Len(sorted)]
         IN  IF getRelMins(activities[last].startTime, dayStartMins)
                  - getRelMins(activities[idx].startTime, dayStartMins) <= 0
             THEN Append(sorted, idx)
             ELSE Append(insertAnchor(SubSeq(sorted, 1, Len(sorted) - 1), idx,
                                      activities, dayStartMins), last)

\* 1. The original indices of the anchored activities among the first n,
\* sorted by relative start time.
RECURSIVE anchorsOf(_, _, _)
anchorsOf(activities, dayStartMins, n) ==
    IF n = 0 THEN <<>>
    ELSE LET rest == anchorsOf(activities, dayStartMins, n - 1)
         IN  IF activities[n].lockedStartTime
             THEN insertAnchor(rest, n, activities, dayStartMins)
             ELSE rest

NoAnchor == 0

\* anchors.findIndex(a => getRelMins(a.act.startTime) > actTime), the slot
\* after the last anchor when there is none.
slotIdxAnyLater(act, anchors, activities, dayStartMins) ==
    LET actTime == getRelMins(act.startTime, dayStartMins)
        later   == {k \in DOMAIN anchors :
                       getRelMins(activities[anchors[k]].startTime, dayStartMins)
                           >= actTime}
    IN  IF later = {} THEN Len(anchors) + 1 ELSE Min(later)

slotIdxOf(act, anchors, activities, dayStartMins) ==
    LET actTime == getRelMins(act.startTime, dayStartMins)
        later   == {k \in DOMAIN anchors :
                       getRelMins(activities[anchors[k]].startTime, dayStartMins)
                           > actTime}
    IN  IF later = {} THEN Len(anchors) + 1 ELSE Min(later)

flexibleIndicesWithAnchors(k, anchors, activities, dayStartMins, n) ==
    SelectSeq([i \in 1..n |-> i],
              LAMBDA i : slotIdxOf(activities[i], anchors, activities, dayStartMins) = k)

\* The flexible indices among the first n pushed to slot k, in index order.
RECURSIVE flexibleIndicesOf(_, _, _, _, _)
flexibleIndicesOf(k, anchors, activities, dayStartMins, n) ==
    IF n = 0 THEN <<>>
    ELSE LET rest == flexibleIndicesOf(k, anchors, activities, dayStartMins, n - 1)
         IN  IF /\ ~activities[n].lockedStartTime
                /\ slotIdxOf(activities[n], anchors, activities, dayStartMins) = k
             THEN Append(rest, n)
             ELSE rest

\* 2. and 3. The slots: one ending at every anchor and, when there is an
\* anchor, a final one; with no anchor the single slot has no ending anchor.
slotsOf(activities, dayStartMins) ==
    LET anchors == anchorsOf(activities, dayStartMins, Len(activities))
    IN  [k \in 1..(Len(anchors) + 1) |->
            [anchorIdx |-> IF k <= Len(anchors) THEN anchors[k] ELSE NoAnchor,
             flexibleIndices |->
                flexibleIndicesOf(k, anchors, activities, dayStartMins,
                                  Len(activities))]]

\* The inner forEach of step 4: the first unvisited index of the slot whose
\* distance is below every earlier one; 0 stands for -1.  dist < minDist is
\* false for a NaN distance, so such an index is never taken.
nearestIdxOf(flexibleIndices, visitedInSlot, currentLoc, activities) ==
    LET dist(p) == getDistance(currentLoc, activities[flexibleIndices[p]].location)
        open == {p \in DOMAIN flexibleIndices :
                    /\ flexibleIndices[p] \notin visitedInSlot
                    /\ dist(p) # NaN}
        best == {p \in open : \A q \in open : dist(p) <= dist(q)}
    IN  IF best = {} THEN 0 ELSE flexibleIndices[Min(best)]

\* The while loop of one slot, from the given visited set and position, for
\* activities and positions with numeric coordinates.
RECURSIVE slotTour(_, _, _, _)
slotTour(flexibleIndices, visitedInSlot, currentLoc, activities) ==
    IF Cardinality(visitedInSlot) >= Len(flexibleIndices) THEN <<>>
    ELSE LET nearestIdx == nearestIdxOf(flexibleIndices, visitedInSlot,
                                        currentLoc, activities)
         IN  <<nearestIdx>> \o slotTour(flexibleIndices,
                                        visitedInSlot \cup {nearestIdx},
                                        activities[nearestIdx].location, activities)

\* 4. slots.forEach from slot k on, entered at currentLoc.
RECURSIVE buildSequence(_, _, _, _)
buildSequence(slots, k, currentLoc, activities) ==
    IF k > Len(slots) THEN <<>>
    ELSE LET slot   == slots[k]
             tour   == slotTour(slot.flexibleIndices, {}, currentLoc, activities)
             placed == IF slot.anchorIdx # NoAnchor
                       THEN Append(tour, slot.anchorIdx) ELSE tour
             loc    == IF placed = <<>> THEN currentLoc
                       ELSE activities[placed[Len(placed)]].location
         IN  placed \o buildSequence(slots, k + 1, loc, activities)

solveGeometricTSP(origin, activities, dayStartTime) ==
    buildSequence(slotsOf(activities, mapTimeToMins(dayStartTime)), 1,
                  origin, activities)

----------------------------------------------------------------------------
(* Harness: solveGeometricTSP step by step on drawn arguments *)

\* Most activities handed to the solver by the harness.
MaxStops == 3

\* (location, startTime, lockedStartTime) of the activities: flexible and
\* anchored ones, equal times, equal locations, times before 09:00.
StopShapes ==
    { <<TokyoDefault, <<10, 0>>, FALSE>>,
      <<Oita, <<10, 0>>, FALSE>>,
      <<TokyoDefault, <<12, 0>>, TRUE>>,
      <<TokyoSkytree, <<8, 0>>, TRUE>>,
      <<Oita, <<12, 0>>, FALSE>>,
      <<TokyoSkytree, <<8, 30>>, FALSE>>,
      <<Oita, <<15, 0>>, TRUE>>,
      <<ShibuyaParco, <<15, 0>>, FALSE>> }

Origins == {Osaka, ShibuyaCrossing}

SolverDayStartTimes == {<<9, 0>>, <<8, 0>>}

Stop(i, shape) ==
    [id |-> IdOrder[i], startTime |-> shape[2],
     endTime |-> minsToTime(timeToMins(shape[2]) + 60), location |-> shape[1],
     lockedStartTime |-> shape[3], lockedDurationMinutes |-> Undefined]

StopLists ==
    UNION { { [i \in 1..n |-> Stop(i, f[i])] : f \in [1..n -> StopShapes] } :
            n \in 0..MaxStops }

InitSolver ==
    /\ day = NoDay
    /\ ops = 0
    /\ asm = NoAssembly
    /\ pending = NoOptimize
    /\ lookup = NoLookup
    /\ pc = "solve"
    /\ xs = <<>> /\ t = <<9, 0>> /\ segs = <<>>
    /\ out = <<>> /\ ys = <<>> /\ out2 = <<>> /\ edit = <<>>
    /\ \E origin \in Origins, activities \in StopLists,
          dayStartTime \in SolverDayStartTimes :
          tsp = [origin |-> origin, activities |-> activities,
                 dayStartTime |-> dayStartTime, slots |-> <<>>, k |-> 0,
                 visitedInSlot |-> {}, finalSequence |-> <<>>,
                 currentLoc |-> origin]

\* Steps 1 to 3: the anchors, the slots and the flexible activities in them.
SolveSlots ==
    /\ pc = "solve"
    /\ tsp' = [tsp EXCEPT !.slots = slotsOf(tsp.activities,
                                            mapTimeToMins(tsp.dayStartTime)),
                          !.k = 1]
    /\ pc' = "tour"
    /\ UNCHANGED <<dayVars, recalcVars, asm, pending, lookup>>

\* One iteration of the while loop of the current slot.
SolvePick ==
    /\ pc = "tour"
    /\ tsp.k <= Len(tsp.slots)
    /\ Cardinality(tsp.visitedInSlot) < Len(tsp.slots[tsp.k].flexibleIndices)
    /\ LET nearestIdx == nearestIdxOf(tsp.slots[tsp.k].flexibleIndices,
                                      tsp.visitedInSlot, tsp.currentLoc,
                                      tsp.activities)
       IN  tsp' = IF nearestIdx # 0
                  THEN [tsp EXCEPT
                          !.visitedInSlot = @ \cup {nearestIdx},
                          !.finalSequence = Append(@, nearestIdx),
                          !.currentLoc = tsp.activities[nearestIdx].location]
                  ELSE tsp
    /\ UNCHANGED <<dayVars, pc, recalcVars, asm, pending, lookup>>

\* The while loop has ended: add the anchor that ends this slot.
SolveEndSlot ==
    /\ pc = "tour"
    /\ tsp.k <= Len(tsp.slots)
    /\ Cardinality(tsp.visitedInSlot) >= Len(tsp.slots[tsp.k].flexibleIndices)
    /\ LET anchorIdx == tsp.slots[tsp.k].anchorIdx
       IN  tsp' = IF anchorIdx # NoAnchor
                  THEN [tsp EXCEPT
                          !.finalSequence = Append(@, anchorIdx),
                          !.currentLoc = tsp.activities[anchorIdx].location,
                          !.visitedInSlot = {},
                          !.k = @ + 1]
                  ELSE [tsp EXCEPT !.visitedInSlot = {}, !.k = @ + 1]
    /\ UNCHANGED <<dayVars, pc, recalcVars, asm, pending, lookup>>

SolveReturn ==
    /\ pc = "tour"
    /\ tsp.k > Len(tsp.slots)
    /\ pc' = "solved"
    /\ UNCHANGED <<dayVars, recalcVars, routeVars, pending, lookup>>

NextSolver == SolveSlots \/ SolvePick \/ SolveEndSlot \/ SolveReturn

SpecSolver == InitSolver /\ [][NextSolver]_vars

----------------------------------------------------------------------------
(* The same steps on activities some of which have no numeric coordinates. *)
(* The function runs synchronously to its return: a step that can be       *)
(* taken is taken.                                                         *)

UnlocatedStopShapes ==
    { <<TokyoDefault, <<10, 0>>, FALSE>>,
      <<Nowhere, <<10, 0>>, FALSE>>,
      <<Oita, <<12, 0>>, FALSE>>,
      <<TokyoDefault, <<12, 0>>, TRUE>>,
      <<Nowhere, <<12, 0>>, TRUE>> }

UnlocatedStopLists ==
    UNION { { [i \in 1..n |-> Stop(i, f[i])] : f \in [1..n -> UnlocatedStopShapes] } :
            n \in 0..MaxStops }

InitSolverUnlocated ==
    /\ day = NoDay
    /\ ops = 0
    /\ asm = NoAssembly
    /\ pending = NoOptimize
    /\ lookup = NoLookup
    /\ pc = "solve"
    /\ xs = <<>> /\ t = <<9, 0>> /\ segs = <<>>
    /\ out = <<>> /\ ys = <<>> /\ out2 = <<>> /\ edit = <<>>
    /\ \E origin \in Origins, activities \in UnlocatedStopLists,
          dayStartTime \in SolverDayStartTimes :
          tsp = [origin |-> origin, activities |-> activities,
                 dayStartTime |-> dayStartTime, slots |-> <<>>, k |-> 0,
                 visitedInSlot |-> {}, finalSequence |-> <<>>,
                 currentLoc |-> origin]

SpecSolverUnlocated ==
    InitSolverUnlocated /\ [][NextSolver]_vars /\ WF_vars(NextSolver)

----------------------------------------------------------------------------
(* calculateFastestRoute as a function of its arguments and of the         *)
(* estimates its queries return: results[i] is <<navitimeResult,           *)
(* walkingResult, fallbackResult>> of leg i.                               *)

\* The default of the dayStartTime parameter.
DefaultDayStartTime == <<9, 0>>

legSegment(results, currentId, targetAct) ==
    LET walkSeg    == walkSegOf(results[2], currentId, targetAct.id)
        transitSeg == transitSegOf(results[1], currentId, targetAct.id)
        selected   == selectSegment(transitSeg, walkSeg, results[3],
                                    currentId, targetAct.id)
    IN  IF selected # Undefined THEN selected[1]
        ELSE placeholderSegment(currentId, targetAct.id)

\* The segments array after the first n iterations of the loop over steps.
RECURSIVE legSegments(_, _, _)
legSegments(steps, results, n) ==
    IF n = 0 THEN <<>>
    ELSE Append(legSegments(steps, results, n - 1),
                legSegment(results[n],
                           IF n = 1 THEN "start" ELSE steps[n - 1].id,
                           steps[n]))

calculateFastestRoute(origin, activities, dayStartTime, results) ==
    LET tspOrder == solveGeometricTSP(origin, activities, dayStartTime)
        steps    == [i \in DOMAIN tspOrder |-> activities[tspOrder[i]]]
    IN  [order |-> tspOrder, segments |-> legSegments(steps, results, Len(steps))]

----------------------------------------------------------------------------
(* Optimize route and the handlers that add activities to the day *)

\* Most activities of the day: the handlers that add are not taken beyond it.
MaxActs == 6

\* The estimates of one leg while the day is optimized: every query fails,
\* or only the walking query gives a route.
DayLegResults ==
    { <<Undefined, Undefined, Undefined>>,
      <<Undefined, <<[text |-> "20 mins", value |-> 1200]>>, Undefined>> }

\* Date.now() at a handler's call: a clock that advances with every call.
Now == ops + 1

\* handleOptimizeRoute up to its await of calculateFastestRoute, which is
\* called with the activities of the rendered day and without a day start
\* time; the day has no accommodation, so the route starts at the first
\* activity.  The result is null when the routes library does not load.
OptimizeRoute ==
    /\ pc = "day"
    /\ ops < MaxOps
    /\ pending = NoOptimize
    /\ Len(day.activities) >= 2
    /\ LET startLocation == day.activities[1].location
       IN  \/ pending' = <<Undefined>>
           \/ \E results \in [DOMAIN day.activities -> DayLegResults] :
                 pending' = << <<calculateFastestRoute(startLocation, day.activities,
                                                       DefaultDayStartTime, results)>> >>
    /\ ops' = ops + 1
    /\ UNCHANGED <<day, pc, recalcVars, routeVars, lookup>>

\* The setTrip update once the result is there: the order is applied to the
\* day as it is now.  An index past the end of the list yields undefined,
\* on which recalculateSchedule throws inside the update.
OptimizeCommit ==
    /\ pc = "day"
    /\ pending # NoOptimize
    /\ LET result == pending[1]
       IN  IF result = Undefined
           THEN UNCHANGED <<day, pc>>
           ELSE IF \E k \in DOMAIN result[1].order :
                       result[1].order[k] > Len(day.activities)
           THEN pc' = "crashed" /\ UNCHANGED day
           ELSE LET newActivities ==
                        [k \in DOMAIN result[1].order |->
                            day.activities[result[1].order[k]]]
                IN  /\ day' = [day EXCEPT
                                 !.activities =
                                    recalculateSchedule(newActivities, day.startTime,
                                                        result[1].segments),
                                 !.travelSegments = result[1].segments]
                    /\ UNCHANGED pc
    /\ pending' = NoOptimize
    /\ UNCHANGED <<ops, recalcVars, routeVars, lookup>>

\* An activity as the adding handlers build it: no locks; the type is the
\* add dialog's default.
NewActivity(id, startTime, endTime, location) ==
    [id |-> id, startTime |-> startTime, endTime |-> endTime,
     location |-> location, type |-> "sightseeing", lockedStartTime |-> FALSE,
     lockedDurationMinutes |-> Undefined]

\* The commit shared by the handlers that append to the day.
appendActivities(newActivities) ==
    day' = [day EXCEPT !.activities =
                recalculateSchedule(day.activities \o newActivities,
                                    day.startTime, Undefined)]

\* durationMinutes recommended for an added activity; <<>> when the
\* recommendation fails.
DurationRecs == {Undefined, <<90>>}

\* startTime of the add dialog's form data.
NewActDataStartTime == <<10, 0>>

confirmAddActivity(durationRec, location) ==
    appendActivities(
        << NewActivity("new-" \o ToString(Now), <<9, 0>>,
                       IF durationRec # Undefined
                       THEN minsToTime(timeToMins(NewActDataStartTime) + durationRec[1])
                       ELSE <<10, 0>>,
                       location) >>)

AddActivity ==
    /\ pc = "day"
    /\ ops < MaxOps
    /\ Len(day.activities) < MaxActs
    /\ \E durationRec \in DurationRecs, location \in {TokyoDefault} :
          confirmAddActivity(durationRec, location)
    /\ ops' = ops + 1
    /\ UNCHANGED <<pc, recalcVars, routeVars, pending, lookup>>

\* The events the dialog lists: it loads them once and keeps them, with
\* their ids, while it is closed and reopened.  startTime is <<>> for
\* "All Day".
LocalEvents ==
    { [id |-> "event-0-0", startTime |-> <<<<18, 0>>>>],
      [id |-> "event-0-1", startTime |-> Undefined] }

handleAddLocalEvent(event, location) ==
    appendActivities(
        << NewActivity(event.id,
                       IF event.startTime # Undefined THEN event.startTime[1]
                       ELSE <<10, 0>>,
                       <<12, 0>>, location) >>)

AddLocalEvent ==
    /\ pc = "day"
    /\ ops < MaxOps
    /\ Len(day.activities) < MaxActs
    /\ \E event \in LocalEvents, location \in {TokyoDefault} :
          handleAddLocalEvent(event, location)
    /\ ops' = ops + 1
    /\ UNCHANGED <<pc, recalcVars, routeVars, pending, lookup>>

\* (startTime, endTime, location) of the activities generateItinerary returns.
GeneratedItineraries == { << <<<<13, 0>>, <<14, 30>>, TokyoSkytree>> >> }

handleAiPlan(generated) ==
    appendActivities(
        [i \in DOMAIN generated |->
            NewActivity("ai-gen-" \o ToString(Now) \o "-" \o ToString(i - 1),
                        generated[i][1], generated[i][2], generated[i][3])])

AiPlan ==
    /\ pc = "day"
    /\ ops < MaxOps
    /\ \E generated \in GeneratedItineraries :
          /\ Len(day.activities) + Len(generated) <= MaxActs
          /\ handleAiPlan(generated)
    /\ ops' = ops + 1
    /\ UNCHANGED <<pc, recalcVars, routeVars, pending, lookup>>

\* suggestedAfterId of a suggestion: 'start', the id of an activity or an
\* id no activity has.
SuggestedAfterIds == {"start", "act-1-1", "act-9-9"}

acceptSuggestion(suggestion) ==
    LET after == {i \in DOMAIN day.activities :
                    day.activities[i].id = suggestion.suggestedAfterId}
        \* the position before which the suggestion is spliced in
        insertIndex == IF suggestion.suggestedAfterId = "start" THEN 1
                       ELSE IF after # {} THEN Min(after) + 1
                       ELSE Len(day.activities) + 1
    IN  day' = [day EXCEPT !.activities =
                    recalculateSchedule(
                        InsertAt(day.activities, insertIndex, suggestion),
                        day.startTime, Undefined)]

\* A suggestion of the list fetched last; an accepted one leaves the list.
AcceptSuggestion ==
    /\ pc = "day"
    /\ ops < MaxOps
    /\ Len(day.activities) < MaxActs
    /\ \E suggestedAfterId \in SuggestedAfterIds :
          acceptSuggestion(
              NewActivity("suggest-" \o ToString(Now) \o "-0",
                          <<12, 0>>, <<14, 0>>, ShibuyaParco)
                  @@ [suggestedAfterId |-> suggestedAfterId])
    /\ ops' = ops + 1
    /\ UNCHANGED <<pc, recalcVars, routeVars, pending, lookup>>

Max(a, b) == IF a >= b THEN a ELSE b

\* The names a place name is split into.
SplitNames == { <<"x", "y">> }

\* The N activities that replace the original; the place lookups give them
\* the original's location when they fail.  durPerAct is a fraction when the
\* original's minutes do not divide by N: the model keeps N * durPerAct and
\* N * startMins, and minsToTime floors the quotient as Math.floor does.
handleSplitActivity(original, newNames) ==
    LET n == Len(newNames)
        durPerActN == Max(60 * n, timeToMins(original.endTime)
                                    - timeToMins(original.startTime))
        newActivities ==
            [i \in DOMAIN newNames |->
                LET startMinsN == timeToMins(original.startTime) * n
                                    + ((i - 1) * durPerActN)
                IN  [NewActivity("split-" \o original.id \o "-" \o ToString(i - 1),
                                 minsToTime(startMinsN \div n),
                                 minsToTime((startMinsN + durPerActN) \div n),
                                 original.location)
                        EXCEPT !.type = original.type]]
        found == {i \in DOMAIN day.activities : day.activities[i].id = original.id}
    IN  IF found = {} THEN day' = day
        ELSE LET idx == Min(found)
             IN  day' = [day EXCEPT !.activities =
                            recalculateSchedule(
                                SubSeq(day.activities, 1, idx - 1) \o newActivities
                                    \o SubSeq(day.activities, idx + 1,
                                              Len(day.activities)),
                                day.startTime, Undefined)]

\* The activity a card hands to onSplit: the card's current activity, or
\* the activity of a card rendered earlier whose split was confirmed before
\* the latest commits (the handler awaits one place lookup per name).
SplitOriginals ==
    {day.activities[i] : i \in DOMAIN day.activities}
        \cup {InitialDay.activities[i] : i \in DOMAIN InitialDay.activities}

SplitActivity ==
    /\ pc = "day"
    /\ ops < MaxOps
    /\ \E original \in SplitOriginals, newNames \in SplitNames :
          /\ Len(day.activities) - 1 + Len(newNames) <= MaxActs
          /\ handleSplitActivity(original, newNames)
    /\ ops' = ops + 1
    /\ UNCHANGED <<pc, recalcVars, routeVars, pending, lookup>>

Init ==
    /\ day = InitialDay
    /\ ops = 0
    /\ asm = NoAssembly
    /\ tsp = NoSolver
    /\ pending = NoOptimize
    /\ lookup = NoLookup
    /\ pc = "day"
    /\ xs = <<>>
    /\ t = InitialDay.startTime
    /\ segs = <<>>
    /\ out = <<>>
    /\ ys = <<>>
    /\ out2 = <<>>
    /\ edit = <<>>

Next ==
    \/ UpdateActivity
    \/ DeleteActivity
    \/ MoveActivity
    \/ Drop
    \/ SortByTime
    \/ UpdateDayStartTime
    \/ OptimizeRoute
    \/ OptimizeCommit
    \/ AddActivity
    \/ AddLocalEvent
    \/ AiPlan
    \/ AcceptSuggestion
    \/ SplitActivity

Spec == Init /\ [][Next]_vars

----------------------------------------------------------------------------
(* Background place lookups.  A card's auto-fetch effect and handleAiPlan  *)
(* start a lookup with the activity they hold, await searchGooglePlace and *)
(* then hand that activity, with the place's fields, to                    *)
(* handleUpdateActivity.  The effect is cancelled only when the card's     *)
(* name, image or city changes, so the card's other handlers may commit    *)
(* while the lookup is in flight.                                          *)

\* place.location of the lookup's result.
PlaceLocations == {TokyoSkytree}

\* The effect of a rendered card whose image is missing or failed to load.
AutoFetchImage ==
    /\ pc = "day"
    /\ lookup = NoLookup
    /\ \E i \in DOMAIN day.activities : lookup' = <<day.activities[i]>>
    /\ UNCHANGED <<dayVars, pc, recalcVars, routeVars, pending>>

\* handleAiPlan: the commit of the generated activities and the lookup
\* started for a generated activity as generateItinerary returned it.
AiPlanLookup ==
    /\ pc = "day"
    /\ ops < MaxOps
    /\ lookup = NoLookup
    /\ \E generated \in GeneratedItineraries :
          /\ Len(day.activities) + Len(generated) <= MaxActs
          /\ handleAiPlan(generated)
          /\ lookup' = << NewActivity("ai-gen-" \o ToString(Now) \o "-0",
                                      generated[1][1], generated[1][2],
                                      generated[1][3]) >>
    /\ ops' = ops + 1
    /\ UNCHANGED <<pc, recalcVars, routeVars, pending>>

\* The lookup returns: without a photo nothing is committed, with one the
\* activity the lookup was started with is committed with the place's fields.
LookupDone ==
    /\ pc = "day"
    /\ lookup # NoLookup
    /\ \/ UNCHANGED day
       \/ \E location \in PlaceLocations :
             handleUpdateActivity([lookup[1] EXCEPT !.location = location])
    /\ lookup' = NoLookup
    /\ UNCHANGED <<ops, pc, recalcVars, routeVars, pending>>

NextEnrich == UpdateActivity \/ AutoFetchImage \/ AiPlanLookup \/ LookupDone

SpecEnrich == Init /\ [][NextEnrich]_vars

----------------------------------------------------------------------------
(* Harness: Optimize route on a drawn day.  The day is as a handler leaves *)
(* it: its activities are a result of recalculateSchedule for its start    *)
(* time.                                                                   *)

OptimizeDayStartTimes == {<<9, 0>>, <<13, 0>>}

OptimizeDays ==
    { [startTime |-> startTime,
       activities |-> recalculateSchedule(activities, startTime, Undefined),
       travelSegments |-> Undefined] :
        startTime \in OptimizeDayStartTimes,
        activities \in {l \in StopLists : Len(l) >= 2} }

InitOptimize ==
    /\ day \in OptimizeDays
    /\ ops = 0
    /\ asm = NoAssembly
    /\ tsp = NoSolver
    /\ pending = NoOptimize
    /\ lookup = NoLookup
    /\ pc = "day"
    /\ xs = <<>> /\ t = <<9, 0>> /\ segs = <<>>
    /\ out = <<>> /\ ys = <<>> /\ out2 = <<>> /\ edit = <<>>

NextOptimize == OptimizeRoute \/ OptimizeCommit

SpecOptimize == InitOptimize /\ [][NextOptimize]_vars

----------------------------------------------------------------------------
(* Properties of recalculateSchedule.  Calls == the (input, output) pairs  *)
(* of the calls made so far.                                               *)

Calls ==
    (IF pc \in {"once", "twice", "lengthened"} THEN {<<xs, out>>} ELSE {})
    \cup (IF pc \in {"twice", "lengthened"} THEN {<<ys, out2>>} ELSE {})

Mins(s) == s[1] * 60 + s[2]

StoredDuration(a) == (Mins(a.endTime) - Mins(a.startTime)) % 1440

\* C1: recalculateSchedule returns a list of the same length whose i-th
\* element has the id of the i-th input element; empty input gives empty
\* output.
C1_OrderPreserved ==
    \A c \in Calls :
        /\ Len(c[2]) = Len(c[1])
        /\ \A i \in DOMAIN c[1] : c[2][i].id = c[1][i].id

C1_Witness ==
    /\ pc = "once"
    /\ Len(xs) = MaxLen
    /\ \A i \in DOMAIN xs : out[i].id = xs[i].id
    /\ \E i \in DOMAIN xs : out[i].startTime # xs[i].startTime

\* C2: an activity with lockedStartTime = true and a well-formed startTime
\* keeps that startTime, whatever the day start, the segments and the
\* activities before it.
C2_AnchorInvariance ==
    \A c \in Calls : \A i \in DOMAIN c[1] :
        (c[1][i].lockedStartTime /\ WellFormed(c[1][i].startTime))
            => c[2][i].startTime = c[1][i].startTime

C2_Witness ==
    /\ pc = "once"
    /\ Len(xs) = 2
    /\ ~xs[1].lockedStartTime
    /\ out[1].startTime # xs[1].startTime
    /\ xs[2].lockedStartTime
    /\ xs[2].startTime = <<14, 2>>
    /\ out[2].startTime = <<14, 2>>

\* C3: an activity with lockedDurationMinutes = d > 0 has
\* (endTime - startTime) mod 1440 = d mod 1440 after the recalculation,
\* also when its input times imply another duration.
C3_DurationFidelity ==
    \A c \in Calls : \A i \in DOMAIN c[1] :
        LET ld == c[1][i].lockedDurationMinutes
        IN  (ld # <<>> /\ ld[1] > 0) => StoredDuration(c[2][i]) = (ld[1] % 1440)

C3_Witness ==
    /\ pc = "once"
    /\ \E i \in DOMAIN xs :
          /\ xs[i].lockedDurationMinutes = <<45>>
          /\ Mins(xs[i].endTime) - Mins(xs[i].startTime) = 90
          /\ xs[i].lockedStartTime
          /\ StoredDuration(out[i]) = 45

\* The effective duration as C4 states it.
ClaimedDuration(a) ==
    LET ld   == a.lockedDurationMinutes
        diff == Mins(a.endTime) - Mins(a.startTime)
    IN  IF ld # <<>> /\ ld[1] > 0 THEN ld[1]
        ELSE IF diff <= 0 THEN 60 ELSE diff

\* C4: the duration used is lockedDurationMinutes when set and > 0,
\* otherwise (unset, zero or negative) the input endTime - startTime, and 60
\* when that difference is <= 0; the stored endTime is the new startTime
\* plus this duration (mod 1440).
C4_EffectiveDuration ==
    \A c \in Calls : \A i \in DOMAIN c[1] :
        StoredDuration(c[2][i]) = (ClaimedDuration(c[1][i]) % 1440)

\* The travel minutes of a hop as C5 states them.
ClaimedTravel(from, to) ==
    LET hits == {k \in DOMAIN segs : segs[k].fromId = from /\ segs[k].toId = to}
    IN  IF hits = {} THEN 30
        ELSE LET v == segs[Min(hits)].durationValue
             IN  IF v % 60 = 0 THEN v \div 60 ELSE (v \div 60) + 1

RoundUpToFive(m) == IF m % 5 = 0 THEN m ELSE m + (5 - (m % 5))

C6_Idempotent ==
    (pc = "twice" /\ \A i \in DOMAIN xs : ~xs[i].lockedStartTime) => out2 = out

\* The activities after edit[1] that C7 speaks of: unanchored, and no
\* anchored activity between the lengthened one and them.
Cascaded ==
    {j \in DOMAIN xs : j > edit[1] /\ \A k \in (edit[1] + 1)..j : ~xs[k].lockedStartTime}

\* C7 as stated: after lengthening activity i, no later unanchored activity
\* (with no anchor in between) starts earlier than before.
C7_NeverEarlier ==
    pc = "lengthened"
        => \A j \in Cascaded : Mins(out2[j].startTime) >= Mins(out[j].startTime)

\* The lengthened schedule reaches activity j without passing 24:00.
SameDayUpTo(j) ==
    \A k \in edit[1]..(j - 1) :
        Mins(out2[k].startTime) + durationMins(ys[k])
            + travelMins(segs, ys[k].id, ys[k + 1].id) + 5 <= 1440

\* C7 (amended): after lengthening activity i, a later unanchored activity j
\* (no anchor in between) does not start earlier than before, provided the
\* lengthened schedule from i to j stays within the day (start + duration +
\* travel, rounded up, remains below 24:00 for every activity from i to j-1).
C7_NeverEarlierSameDay ==
    pc = "lengthened"
        => \A j \in Cascaded :
              SameDayUpTo(j) => Mins(out2[j].startTime) >= Mins(out[j].startTime)

C7_Witness ==
    /\ pc = "lengthened"
    /\ edit = <<1, 180>>
    /\ 2 \in Cascaded
    /\ SameDayUpTo(2)
    /\ Mins(out2[2].startTime) > Mins(out[2].startTime)

----------------------------------------------------------------------------
(* Properties of the day handlers *)

Absent(activityId) ==
    \A i \in DOMAIN day.activities : Trim(day.activities[i].id) # Trim(activityId)

\* C8: deleting an activity id that is not present in the day is a no-op:
\* the day keeps the same activities in the same order with unchanged
\* startTime and endTime.
C8_DeleteAbsentIsNoOp ==
    [][\A activityId \in DeleteIds :
          (pc = "day" /\ Absent(activityId) /\ handleDeleteActivity(activityId))
              => day'.activities = day.activities]_vars

----------------------------------------------------------------------------
(* Properties of the travel-segment selection *)

\* A leg has been decided with both estimates present.
BothEstimates ==
    /\ pc = "legs"
    /\ asm.i > 1
    /\ asm.walkSeg # <<>>
    /\ asm.transitSeg # <<>>

Stored == asm.segments[Len(asm.segments)]

NoAlternative(seg) ==
    /\ seg.alternativeMode = <<>>
    /\ seg.alternativeDuration = <<>>
    /\ seg.alternativeLabel = <<>>

IsEstimate(seg, est) ==
    /\ seg.mode = est.mode
    /\ seg.duration = est.duration
    /\ seg.durationValue = est.durationValue
    /\ seg.fromId = est.fromId
    /\ seg.toId = est.toId

HasAlternative(seg, est) ==
    /\ seg.alternativeMode = <<est.mode>>
    /\ seg.alternativeDuration = <<est.duration>>
    /\ seg.alternativeLabel # <<>>

\* C9: when both estimates exist and walking exceeds 45 minutes (2700 s),
\* the transit estimate is stored as the primary segment with no
\* alternative, for every transit duration.
C9_LongWalkTakesTransit ==
    (BothEstimates /\ asm.walkSeg[1].durationValue > 2700)
        => /\ IsEstimate(Stored, asm.transitSeg[1])
           /\ NoAlternative(Stored)

C9_Witness ==
    /\ BothEstimates
    /\ asm.walkSeg[1].durationValue = 3000
    /\ asm.transitSeg[1].durationValue = 3600
    /\ Stored.mode = "BUS"
    /\ Stored.durationValue = 3600
    /\ NoAlternative(Stored)

\* C10: with both estimates and walking <= 45 minutes, a mode more than 15
\* minutes (900 s) faster than the other is primary with no alternative;
\* otherwise (difference <= 900 s, exactly 900 included) the faster
\* estimate is primary and the other is attached as its alternative.
C10_CloseMatch ==
    (BothEstimates /\ asm.walkSeg[1].durationValue <= 2700)
        => LET w  == asm.walkSeg[1]
               tr == asm.transitSeg[1]
           IN  /\ tr.durationValue + 900 < w.durationValue
                    => IsEstimate(Stored, tr) /\ NoAlternative(Stored)
               /\ w.durationValue + 900 < tr.durationValue
                    => IsEstimate(Stored, w) /\ NoAlternative(Stored)
               /\ (tr.durationValue + 900 >= w.durationValue
                     /\ tr.durationValue < w.durationValue)
                    => IsEstimate(Stored, tr) /\ HasAlternative(Stored, w)
               /\ (w.durationValue + 900 >= tr.durationValue
                     /\ w.durationValue < tr.durationValue)
                    => IsEstimate(Stored, w) /\ HasAlternative(Stored, tr)
               /\ w.durationValue = tr.durationValue
                    => \/ IsEstimate(Stored, tr) /\ HasAlternative(Stored, w)
                       \/ IsEstimate(Stored, w) /\ HasAlternative(Stored, tr)

C10_Witness ==
    /\ BothEstimates
    /\ asm.walkSeg[1].durationValue = 1200
    /\ asm.transitSeg[1].durationValue = 2100
    /\ Stored.mode = "WALKING"
    /\ Stored.alternativeMode = <<"BUS">>
    /\ Stored.alternativeLabel = <<<<"Bus: ", "35 min">>>>

----------------------------------------------------------------------------
(* Properties of the route solver *)

Solved == pc = "solved"

\* The position of activity index i in the solver's output.
Pos(i) == CHOOSE p \in DOMAIN tsp.finalSequence : tsp.finalSequence[p] = i

Anchored == {i \in DOMAIN tsp.activities : tsp.activities[i].lockedStartTime}

Flexible == DOMAIN tsp.activities \ Anchored

\* The day-relative start time of activity i as the claims state it.
Rel(i) ==
    LET m == Mins(tsp.activities[i].startTime)
    IN  IF m < Mins(tsp.dayStartTime) THEN m + 1440 ELSE m

\* C11: solveGeometricTSP returns a permutation of the activity indices:
\* every index occurs exactly once in the output, and zero activities give
\* the empty sequence.
C11_Permutation ==
    Solved =>
        /\ Len(tsp.finalSequence) = Len(tsp.activities)
        /\ \A i \in DOMAIN tsp.activities :
              Cardinality({p \in DOMAIN tsp.finalSequence :
                              tsp.finalSequence[p] = i}) = 1

C11_Witness ==
    /\ Solved
    /\ Len(tsp.activities) = 3
    /\ Anchored # {} /\ Flexible # {}
    /\ tsp.finalSequence = <<3, 1, 2>>

\* C12: in the output the anchored activities appear in non-decreasing
\* day-relative start time, and when every activity is anchored the output
\* is the anchors in that order.
C12_AnchorOrder ==
    Solved =>
        /\ Flexible = {} => Len(tsp.finalSequence) = Cardinality(Anchored)
        /\ \A p \in DOMAIN tsp.finalSequence : \A q \in DOMAIN tsp.finalSequence :
              (/\ p < q
               /\ tsp.finalSequence[p] \in Anchored
               /\ tsp.finalSequence[q] \in Anchored)
                  => Rel(tsp.finalSequence[p]) <= Rel(tsp.finalSequence[q])

C12_Witness ==
    /\ Solved
    /\ tsp.dayStartTime = <<9, 0>>
    /\ Len(tsp.activities) = 3
    /\ Anchored = {1, 3}
    /\ tsp.activities[1].startTime = <<8, 0>>
    /\ tsp.activities[3].startTime = <<15, 0>>
    /\ Pos(3) < Pos(1)

\* C13: every flexible activity comes after every anchor whose day-relative
\* time is <= its own day-relative start time and before every anchor whose
\* day-relative time is strictly greater.
C13_SlotAssignment ==
    Solved =>
        \A f \in Flexible : \A a \in Anchored :
            /\ Rel(a) <= Rel(f) => Pos(a) < Pos(f)
            /\ Rel(a) > Rel(f) => Pos(f) < Pos(a)

C13_Witness ==
    /\ Solved
    /\ \E f \in Flexible : \E a \in Anchored : \E b \in Anchored :
          /\ Rel(a) = Rel(f)
          /\ Rel(b) > Rel(f)
          /\ f < a
          /\ Pos(a) < Pos(f) /\ Pos(f) < Pos(b)

\* The haversine great-circle distance in whole metres on the same
\* locations: a = sin^2(dphi/2) + cos(phi1) * cos(phi2) * sin^2(dlambda/2).
GreatCircleMetres ==
    <<ShibuyaCrossing, ShibuyaCrossing>> :> 0 @@ <<ShibuyaCrossing, ShibuyaParco>> :> 322 @@ <<ShibuyaCrossing, TokyoSkytree>> :> 11436 @@ <<ShibuyaCrossing, TokyoDefault>> :> 4892 @@ <<ShibuyaCrossing, Osaka>> :> 396346 @@ <<ShibuyaCrossing, Oita>> :> 788884
    @@ <<ShibuyaParco, ShibuyaCrossing>> :> 322 @@ <<ShibuyaParco, ShibuyaParco>> :> 0 @@ <<ShibuyaParco, TokyoSkytree>> :> 11445 @@ <<ShibuyaParco, TokyoDefault>> :> 4640 @@ <<ShibuyaParco, Osaka>> :> 396258 @@ <<ShibuyaParco, Oita>> :> 788813
    @@ <<TokyoSkytree, ShibuyaCrossing>> :> 11436 @@ <<TokyoSkytree, ShibuyaParco>> :> 11445 @@ <<TokyoSkytree, TokyoSkytree>> :> 0 @@ <<TokyoSkytree, TokyoDefault>> :> 14965 @@ <<TokyoSkytree, Osaka>> :> 407406 @@ <<TokyoSkytree, Oita>> :> 800080
    @@ <<TokyoDefault, ShibuyaCrossing>> :> 4892 @@ <<TokyoDefault, ShibuyaParco>> :> 4640 @@ <<TokyoDefault, TokyoSkytree>> :> 14965 @@ <<TokyoDefault, TokyoDefault>> :> 0 @@ <<TokyoDefault, Osaka>> :> 392441 @@ <<TokyoDefault, Oita>> :> 785139
    @@ <<Osaka, ShibuyaCrossing>> :> 396346 @@ <<Osaka, ShibuyaParco>> :> 396258 @@ <<Osaka, TokyoSkytree>> :> 407406 @@ <<Osaka, TokyoDefault>> :> 392441 @@ <<Osaka, Osaka>> :> 0 @@ <<Osaka, Oita>> :> 393705
    @@ <<Oita, ShibuyaCrossing>> :> 788884 @@ <<Oita, ShibuyaParco>> :> 788813 @@ <<Oita, TokyoSkytree>> :> 800080 @@ <<Oita, TokyoDefault>> :> 785139 @@ <<Oita, Osaka>> :> 393705 @@ <<Oita, Oita>> :> 0

\* The flexible activities of the current slot that are not yet emitted.
OpenInSlot ==
    {tsp.slots[tsp.k].flexibleIndices[p] :
        p \in DOMAIN tsp.slots[tsp.k].flexibleIndices} \ tsp.visitedInSlot

Emitted == tsp'.finalSequence[Len(tsp'.finalSequence)]

\* Activity i is a nearest open activity under the metre table D, ties
\* going to the lowest index.
NearestBy(D, i) ==
    \A j \in OpenInSlot :
        LET di == D[<<tsp.currentLoc, tsp.activities[i].location>>]
            dj == D[<<tsp.currentLoc, tsp.activities[j].location>>]
        IN  di < dj \/ (di = dj /\ i <= j)

\* C18: every flexible activity the solver emits is, when it is emitted, a
\* minimum great-circle-distance choice among the not yet emitted flexible
\* activities of its slot, measured from the most recently emitted stop
\* (the origin at first), ties going to the lowest original index.
C18_NearestNeighbor ==
    [][(SolvePick /\ tsp' # tsp) => NearestBy(GreatCircleMetres, Emitted)]_vars

----------------------------------------------------------------------------
(* Properties of the travel-time assembly *)

\* C16: whatever queries fail on whatever legs, the assembly has one segment
\* per activity handled so far (per activity of the route once it has
\* returned), segment i leading to the i-th ordered activity from "start"
\* (i = 1) or from the activity of segment i-1; a leg none of whose queries
\* gave a route is the placeholder (WALKING, "?", 0) and the legs after it
\* are still computed.
C16_GracefulDegradation ==
    pc \in {"legs", "returned"} =>
        /\ Len(asm.segments) = asm.i - 1
        /\ pc = "returned" => Len(asm.segments) = Len(asm.steps)
        /\ \A k \in DOMAIN asm.segments :
              /\ asm.segments[k].toId = asm.steps[k].id
              /\ asm.segments[k].fromId =
                    (IF k = 1 THEN "start" ELSE asm.segments[k - 1].toId)
              /\ k \in asm.failed =>
                    /\ asm.segments[k].mode = "WALKING"
                    /\ asm.segments[k].duration = "?"
                    /\ asm.segments[k].durationValue = 0
                    /\ NoAlternative(asm.segments[k])

C16_Witness ==
    /\ pc = "returned"
    /\ Len(asm.steps) = 2
    /\ asm.failed = {1}
    /\ asm.segments[1].duration = "?"
    /\ asm.segments[2].fromId = "a" /\ asm.segments[2].toId = "b"
    /\ asm.segments[2].mode = "TRANSIT"
    /\ asm.segments[2].durationValue = 1800

\* Travel seconds plus stay seconds of the first k legs.
RECURSIVE ClockAdvance(_)
ClockAdvance(k) ==
    IF k = 0 THEN 0
    ELSE ClockAdvance(k - 1) + asm.segments[k].durationValue
            + 60 * getActivityDuration(asm.steps[k])

\* C20: the departure time used for the next leg is the initial departure
\* time plus, for every leg handled so far, its travel seconds and the
\* visited activity's stay, also for legs whose queries all failed.
C20_DepartureClock ==
    pc = "legs" => asm.departure = ClockAdvance(asm.i - 1)

----------------------------------------------------------------------------
(* Properties of Optimize route and of the day's travel segments *)

\* Optimize route has committed a route to the day.
Optimized == pc = "day" /\ pending = NoOptimize /\ day.travelSegments # Undefined

IsPlaceholder(seg) ==
    seg.mode = "WALKING" /\ seg.duration = "?" /\ seg.durationValue = 0

\* C14: when every query of a leg fails the leg's segment is the
\* zero-duration WALKING placeholder, and the recalculation Optimize route
\* runs with the segments schedules that hop with the 30-minute default:
\* the destination starts at roundUpToFive(previous computed end + 30).
C14_PlaceholderTakesDefaultBuffer ==
    Optimized =>
        \A i \in DOMAIN day.activities :
            (/\ i > 1
             /\ ~day.activities[i].lockedStartTime
             /\ IsPlaceholder(day.travelSegments[i]))
                => Mins(day.activities[i].startTime)
                     = (RoundUpToFive(Mins(day.activities[i - 1].endTime) + 30) % 1440)

\* The day-relative time of the day's activity i, relative to the day's
\* own start time.
DayRel(i) ==
    LET m == Mins(day.activities[i].startTime)
    IN  IF m < Mins(day.startTime) THEN m + 1440 ELSE m

\* C19: Optimize route orders the anchors relative to the day's own start
\* time T: an anchor earlier than T counts as next-day (time + 1440) and
\* comes after the anchors at or after T, for every T.
C19_AnchorsRelativeToDayStart ==
    Optimized =>
        \A i \in DOMAIN day.activities : \A j \in DOMAIN day.activities :
            (/\ i < j
             /\ day.activities[i].lockedStartTime
             /\ day.activities[j].lockedStartTime)
                => DayRel(i) <= DayRel(j)

\* C15: a day's travelSegments, if present, form a path matching the day's
\* current activity order: the first goes from "start" to the first
\* activity, segment i from activity i-1 to activity i.
C15_SegmentsMatchOrder ==
    (pc = "day" /\ day.travelSegments # Undefined) =>
        /\ Len(day.travelSegments) = Len(day.activities)
        /\ \A i \in DOMAIN day.travelSegments :
              /\ day.travelSegments[i].toId = day.activities[i].id
              /\ day.travelSegments[i].fromId =
                    (IF i = 1 THEN "start" ELSE day.activities[i - 1].id)

\* C17: no reachable day contains two activities with the same id.
C17_UniqueIds ==
    pc = "day" =>
        \A i \in DOMAIN day.activities : \A j \in DOMAIN day.activities :
            day.activities[i].id = day.activities[j].id => i = j

----------------------------------------------------------------------------
(* Stay durations: the route assembly against the recalculator *)

\* C21: the stay duration the assembly clock uses for an activity equals
\* the recalculator's effective duration of the same activity, for every
\* activity, one whose endTime is numerically before its startTime and one
\* with a non-positive locked duration included.
C21_SameStayDuration ==
    pc # "input" =>
        \A i \in DOMAIN xs : getActivityDuration(xs[i]) = durationMins(xs[i])

----------------------------------------------------------------------------
(* Malformed time strings *)

\* A time string without ':' read as 0 minutes.
AsZeroMinutes(s) == IF Len(s) < 2 THEN <<0, 0>> ELSE s

\* C22: the recalculator is total on malformed times: a time string without
\* ':' (an activity's startTime or endTime, or the day start time) counts
\* as 0 minutes, and every activity of the output has well-formed HH:mm
\* startTime and endTime.
C22_MalformedCountsAsZero ==
    pc = "once" =>
        /\ out = recalculateSchedule(
                    [i \in DOMAIN xs |->
                        [xs[i] EXCEPT !.startTime = AsZeroMinutes(@),
                                      !.endTime = AsZeroMinutes(@)]],
                    AsZeroMinutes(t), segs)
        /\ \A i \in DOMAIN out :
              WellFormed(out[i].startTime) /\ WellFormed(out[i].endTime)

----------------------------------------------------------------------------
(* Split *)

\* The step commits the split of original into newNames.
SplitOf(original, newNames) ==
    /\ pc = "day"
    /\ ops' = ops + 1
    /\ handleSplitActivity(original, newNames)

\* C23: splitting an activity present in the day into N names replaces it,
\* at its original index, by N new activities in name order while all other
\* activities keep their relative order, and after the recalculation each
\* new activity's stored duration ((endTime - startTime) mod 1440) is at
\* least 60 minutes; splitting an activity whose id is not in the day
\* leaves the day unchanged.
C23_SplitInPlace ==
    [][ /\ \A i \in DOMAIN day.activities : \A newNames \in SplitNames :
            SplitOf(day.activities[i], newNames) =>
                LET n == Len(newNames)
                    old == day.activities
                    new == day'.activities
                IN  /\ Len(new) = Len(old) - 1 + n
                    /\ \A k \in 1..(i - 1) : new[k].id = old[k].id
                    /\ \A k \in 1..n :
                          /\ new[i - 1 + k].id
                                = "split-" \o old[i].id \o "-" \o ToString(k - 1)
                          /\ StoredDuration(new[i - 1 + k]) >= 60
                    /\ \A k \in (i + 1)..Len(old) : new[k - 1 + n].id = old[k].id
        /\ \A original \in SplitOriginals : \A newNames \in SplitNames :
            (/\ SplitOf(original, newNames)
             /\ \A i \in DOMAIN day.activities : day.activities[i].id # original.id)
                => day' = day
      ]_vars

----------------------------------------------------------------------------
(* Five-minute grid *)

----------------------------------------------------------------------------
(* Schedule and stored segments *)

\* The travel minutes of a hop under the day's stored travelSegments.
StoredTravel(from, to) ==
    LET hits == {k \in DOMAIN day.travelSegments :
                    /\ day.travelSegments[k].fromId = from
                    /\ day.travelSegments[k].toId = to}
    IN  IF hits = {} THEN 30
        ELSE LET v == day.travelSegments[Min(hits)].durationValue
             IN  IF v % 60 = 0 THEN v \div 60 ELSE (v \div 60) + 1

\* The stored times are those of a schedule whose hops use the day's stored
\* travelSegments.
HopsUseStoredSegments ==
    \A i \in DOMAIN day.activities :
        (i > 1 /\ ~day.activities[i].lockedStartTime)
            => Mins(day.activities[i].startTime)
                 = (RoundUpToFive(Mins(day.activities[i - 1].endTime)
                      + StoredTravel(day.activities[i - 1].id,
                                     day.activities[i].id)) % 1440)

\* C25: after every handler operation that commits a change of the day, the
\* stored times are those of a schedule whose hops use the day's stored
\* travelSegments: a non-first, non-anchored activity starts at
\* roundUpToFive(previous end + travel minutes of the stored segment for
\* that hop, 30 without one); no handler puts a hop with a stored matching
\* segment back on the flat 30-minute buffer.
C25_HopsUseStoredSegments ==
    [][day' # day => HopsUseStoredSegments']_vars

----------------------------------------------------------------------------
(* Optimize route under interleaving *)

\* The step is the commit of an Optimize route result.
OptimizeCommits ==
    pending # NoOptimize /\ pending' = NoOptimize /\ pending[1] # Undefined

Ids(activities) == {activities[i].id : i \in DOMAIN activities}

Occurrences(activities, id) ==
    Cardinality({i \in DOMAIN activities : activities[i].id = id})

\* C26: whatever other handlers committed on the day while Optimize route
\* awaited its queries, the list Optimize commits is a permutation of the
\* day's activities at commit time (none lost, none duplicated, no
\* undefined entry, so the commit does not throw), and the committed
\* travelSegments name only activities of that list.
C26_CommitIsPermutation ==
    [][OptimizeCommits =>
          /\ pc' = "day"
          /\ Len(day'.activities) = Len(day.activities)
          /\ \A id \in Ids(day.activities) :
                Occurrences(day'.activities, id) = Occurrences(day.activities, id)
          /\ \A k \in DOMAIN day'.travelSegments :
                /\ day'.travelSegments[k].toId \in Ids(day'.activities)
                /\ day'.travelSegments[k].fromId
                      \in Ids(day'.activities) \cup {"start"}
      ]_vars

----------------------------------------------------------------------------
(* Enrichment *)

\* The step is the return of a place lookup.
LookupCompletes == lookup # NoLookup /\ lookup' = NoLookup

\* C27: when a background lookup completes it changes only enrichment
\* fields: every activity keeps the lockedStartTime and
\* lockedDurationMinutes it had in the state, and an anchored activity keeps
\* its startTime, whatever the user committed while the lookup was in
\* flight.
C27_EnrichmentKeepsUserValues ==
    [][LookupCompletes =>
          /\ Len(day'.activities) = Len(day.activities)
          /\ \A i \in DOMAIN day.activities :
                /\ day'.activities[i].lockedStartTime
                      = day.activities[i].lockedStartTime
                /\ day'.activities[i].lockedDurationMinutes
                      = day.activities[i].lockedDurationMinutes
                /\ day.activities[i].lockedStartTime
                      => day'.activities[i].startTime = day.activities[i].startTime
      ]_vars

----------------------------------------------------------------------------
(* Cards under the type filter *)

\* The index of a displayed card's activity in the day's full list.
originalIndex(activity) ==
    Min({i \in DOMAIN day.activities : day.activities[i].id = activity.id})

\* The step commits the handler call a card makes with the given index.
MoveCommits(index, direction) ==
    /\ pc = "day"
    /\ ops' = ops + 1
    /\ moveEnabled(index, direction)
    /\ handleMoveActivity(index, direction)

DropCommits(draggedIndex, targetIndex) ==
    pc = "day" /\ ops' = ops + 1 /\ handleDrop(draggedIndex, targetIndex)

\* C28: for every setting of the type filter, Move up, Move down and
\* drag-drop on a displayed card operate on that card's activity: what the
\* handler commits for the card displayed at position k is the move of the
\* activity at that card's index in the day's full list.
C28_CardTargetsItsActivity ==
    [][\A filterType \in FilterTypes :
          \A k \in DOMAIN displayedActivities(filterType) :
             /\ \A direction \in {-1, 1} :
                   MoveCommits(k, direction)
                      => handleMoveActivity(
                            originalIndex(displayedActivities(filterType)[k]),
                            direction)
             /\ \A j \in DOMAIN displayedActivities(filterType) :
                   DropCommits(k, j)
                      => handleDrop(
                            originalIndex(displayedActivities(filterType)[k]),
                            originalIndex(displayedActivities(filterType)[j]))
      ]_vars

----------------------------------------------------------------------------
(* Termination of the solver *)

\* C29: solveGeometricTSP terminates for every input list, flexible
\* activities whose distance to the current position is not comparable
\* (coordinates that are not numbers) included: every run of the solver
\* reaches its return.
C29_SolverTerminates == <>(pc = "solved")

----------------------------------------------------------------------------
(* Sort by time *)

\* The step commits Sort by time.
SortCommits == pc = "day" /\ ops' = ops + 1 /\ handleSortByTime

\* C30: Sort by time applied twice in a row gives the same order and the
\* same times as applied once, for every day state: the day a Sort by time
\* commits is left unchanged by another Sort by time.
C30_SortIdempotent ==
    [][SortCommits => sortedByTime(day') = day']_vars

====
